---- MODULE Spec2Model ----
(***************************************************************************)
(* A model of app.py: the cleaning / deriving / joining pipeline           *)
(* build_lines over three tables (emergency calls, hospital addresses,     *)
(* scene locations) and the filter flow of the dashboard script that       *)
(* consumes its result.                                                    *)
(*                                                                         *)
(* Encoding of pandas values:                                              *)
(*   - a text cell is a sequence of characters (one string each); a missing *)
(*     cell (NaN / None) is the marker Null, which is not a text;          *)
(*   - a table is a sequence of rows (row order is the frame's order), a   *)
(*     row is a record whose DOMAIN is the set of columns of the frame;    *)
(*   - a coordinate is an opaque token ("35.0", ...) or "NaN": the code    *)
(*     never computes with coordinates, it carries and null-tests them;    *)
(*   - a time cell is a record [k, d, h]: k = "null" (NaN), "bad" (text    *)
(*     that does not parse), "text" (text that parses to day d, hour h),   *)
(*     "ts" (a parsed Timestamp) or "nat" (NaT);                           *)
(*   - the field src of a call row is the position of the row in the       *)
(*     uploaded table; it stands for the row's identity and is carried     *)
(*     through the joins unchanged.                                        *)
(***************************************************************************)
EXTENDS Integers, Sequences, FiniteSets, TLC

VARIABLES
    emg0, addr0, scene0,   \* the three tables as loaded from the uploads
    emg, addr, scene,      \* the frames handed to build_lines (mutated in place)
    lines,                 \* the frame build_lines returned last
    calls,                 \* how often build_lines has returned, counted up to two
    pc,                    \* position of the dashboard script
    date_range,            \* value of the date_input widget
    day_base, day,         \* the date-filtered and the fully filtered frame
    hosp_val, time_val, cond_val, map_type,   \* widget selections
    builder, shown,        \* the map builder called, and the frame it was given
    msg                    \* st.info / st.warning / st.error shown last

pipeVars == <<emg0, addr0, scene0, emg, addr, scene, lines, calls>>
dashVars == <<pc, date_range, day_base, day, hosp_val, time_val, cond_val,
              map_type, builder, shown, msg>>
vars == <<emg0, addr0, scene0, emg, addr, scene, lines, calls,
          pc, date_range, day_base, day, hosp_val, time_val, cond_val,
          map_type, builder, shown, msg>>

(***************************************************************************)
(* Text                                                                    *)
(***************************************************************************)
SP == " "
FW == "u3000"                  \* the character U+3000, the full-width (ideographic) space
Whitespace == {SP, FW}          \* what str.strip() removes among the characters used
Null == <<"<NaN>">>             \* a missing cell; never a text
NanText == <<"n", "a", "n">>    \* str(float("nan"))

isna(x) == x = Null

\* str(x) on a cell: a text is itself, a missing cell prints as "nan".
Str(x) == IF isna(x) THEN NanText ELSE x

RECURSIVE LStrip(_)
LStrip(s) == IF s # <<>> /\ Head(s) \in Whitespace THEN LStrip(Tail(s)) ELSE s

RECURSIVE RStrip(_)
RStrip(s) ==
    IF s # <<>> /\ s[Len(s)] \in Whitespace
    THEN RStrip(SubSeq(s, 1, Len(s) - 1))
    ELSE s

\* str.strip()
Strip(s) == RStrip(LStrip(s))

\* str.replace("\u3000", "")
RemoveFW(s) == SelectSeq(s, LAMBDA c : c # FW)

\* clean_str(s) = str(s).replace("\u3000", "").strip()
clean_str(s) == Strip(RemoveFW(Str(s)))

\* Series.astype(str).apply(clean_str) on one cell
CleanName(x) == clean_str(Str(x))

\* Series.astype(str).str.strip() on one cell
CleanId(x) == Strip(Str(x))

\* w in s  (substring test)
Contains(s, w) ==
    \E i \in 0..(Len(s) - Len(w)) : SubSeq(s, i + 1, i + Len(w)) = w

(***************************************************************************)
(* Row helpers                                                             *)
(***************************************************************************)
\* the least and the greatest element of a set of integers
Min(S) == CHOOSE m \in S : \A n \in S : m <= n
Max(S) == CHOOSE m \in S : \A n \in S : n <= m

\* row.get(col): None when the frame has no such column
Get(row, col) == IF col \in DOMAIN row THEN row[col] ELSE Null

\* frame[col] = value, on one row: the column is overwritten or added
With(row, col, v) == (col :> v) @@ row

\* frame[[cols]], on one row
Project(row, cols) == [c \in cols |-> row[c]]

MapRows(t, F(_)) == [i \in 1..Len(t) |-> F(t[i])]

(***************************************************************************)
(* detect_condition                                                        *)
(***************************************************************************)
\* Japanese characters are written by their readings, one token per character.
HIGAITOU == <<"hi", "gai", "tou">>        \* the not-applicable token

is_on(x) ==
    IF isna(x) THEN FALSE
    ELSE LET s == Str(x) IN (s # <<>>) /\ (s # HIGAITOU) /\ (s # <<"0">>)

\* detect_condition with the first two tests in the other order
detect_condition_flu_first(row) ==
    IF is_on(Get(row, "incident_condition_flu")) THEN "infuru"
    ELSE IF is_on(Get(row, "incident_condition_heatstroke")) THEN "necchusho"
    ELSE IF is_on(Get(row, "incident_condition_snow")) THEN "yuki"
    ELSE IF is_on(Get(row, "incident_condition_covid19_suspect")) THEN "korona-utagai"
    ELSE "sonota/nashi"

detect_condition(row) ==
    IF is_on(Get(row, "incident_condition_heatstroke")) THEN "necchusho"
    ELSE IF is_on(Get(row, "incident_condition_flu")) THEN "infuru"
    ELSE IF is_on(Get(row, "incident_condition_snow")) THEN "yuki"
    ELSE IF is_on(Get(row, "incident_condition_covid19_suspect")) THEN "korona-utagai"
    ELSE "sonota/nashi"

(***************************************************************************)
(* classify_available: True / False / None are the tokens below            *)
(***************************************************************************)
SHUYOKA == <<"shuu", "you", "ka">>        \* the capacity-available literal
NG_WORDS == { <<"sho", "chi", "kon", "nan">>, <<"ou", "tou", "na", "shi">>,
              <<"kan", "ja", "tai", "ou", "chuu">>, <<"man", "shou">> }

\* classify_available with unrecognised text left unclassified
classify_available_unknown(info) ==
    IF isna(info) THEN "None"
    ELSE LET s == Strip(Str(info)) IN
         IF s = SHUYOKA THEN "True"
         ELSE IF \E w \in NG_WORDS : Contains(s, w) THEN "False"
         ELSE "None"

classify_available(info) ==
    IF isna(info) THEN "None"
    ELSE LET s == Strip(Str(info)) IN
         IF s = SHUYOKA THEN "True"
         ELSE IF \E w \in NG_WORDS : Contains(s, w) THEN "False"
         ELSE "False"

(***************************************************************************)
(* Times                                                                   *)
(***************************************************************************)
NaT == [k |-> "nat", d |-> 0, h |-> 0]

\* to_datetime that parses text only, and coerces a Timestamp to NaT
to_datetime_text_only(c) ==
    CASE c.k = "text" -> [k |-> "ts", d |-> c.d, h |-> c.h]
      [] OTHER        -> NaT

\* pd.to_datetime(cell, errors="coerce")
to_datetime(c) ==
    CASE c.k = "text" -> [k |-> "ts", d |-> c.d, h |-> c.h]
      [] c.k = "ts"   -> c
      [] OTHER        -> NaT

\* Series.dt.hour on one cell: [nan, v]
dt_hour(c) == IF c.k = "ts" THEN [nan |-> FALSE, v |-> c.h] ELSE [nan |-> TRUE, v |-> 0]

\* Series.dt.date on one cell: the day number, or NoDate for NaT
NoDate == 0
dt_date(c) == IF c.k = "ts" THEN c.d ELSE NoDate

\* pd.cut with right=True, include_lowest=True: [0,6], (6,12], (12,18], (18,24]
cut_right_closed(hr) ==
    IF hr.nan THEN "NaN"
    ELSE IF 0 <= hr.v /\ hr.v <= 6 THEN "0-6"
    ELSE IF 6 < hr.v /\ hr.v <= 12 THEN "6-12"
    ELSE IF 12 < hr.v /\ hr.v <= 18 THEN "12-18"
    ELSE IF 18 < hr.v /\ hr.v <= 24 THEN "18-24"
    ELSE "NaN"

\* pd.cut(hour, bins=[0, 6, 12, 18, 24], labels=[...], right=False)
cut(hr) ==
    IF hr.nan THEN "NaN"
    ELSE IF 0 <= hr.v /\ hr.v < 6 THEN "0-6"
    ELSE IF 6 <= hr.v /\ hr.v < 12 THEN "6-12"
    ELSE IF 12 <= hr.v /\ hr.v < 18 THEN "12-18"
    ELSE IF 18 <= hr.v /\ hr.v < 24 THEN "18-24"
    ELSE "NaN"

(***************************************************************************)
(* Frame operations                                                        *)
(***************************************************************************)
\* DataFrame.dropna(subset=[a, b]) for coordinate columns
dropna(t, a, b) == SelectSeq(t, LAMBDA r : r[a] # "NaN" /\ r[b] # "NaN")

\* drop_duplicates(col, keep="last")
drop_duplicates_last(t, col) ==
    LET keep(i) == \A j \in (i + 1)..Len(t) : t[j][col] # t[i][col]
        F[i \in 0..Len(t)] ==
            IF i = 0 THEN <<>>
            ELSE IF keep(i) THEN Append(F[i - 1], t[i]) ELSE F[i - 1]
    IN F[Len(t)]

\* DataFrame.drop_duplicates(col): the first row of each key is kept
drop_duplicates(t, col) ==
    LET keep(i) == \A j \in 1..(i - 1) : t[j][col] # t[i][col]
        F[i \in 0..Len(t)] ==
            IF i = 0 THEN <<>>
            ELSE IF keep(i) THEN Append(F[i - 1], t[i]) ELSE F[i - 1]
    IN F[Len(t)]

\* merge(..., how="inner"): a left row without a match is dropped
merge_inner(left, right, key, rcols) ==
    LET matches(l) == SelectSeq(right, LAMBDA r : r[key] = l[key])
        one(l) == MapRows(matches(l), LAMBDA r : Project(r, rcols) @@ l)
        F[i \in 0..Len(left)] ==
            IF i = 0 THEN <<>> ELSE F[i - 1] \o one(left[i])
    IN F[Len(left)]

\* left.merge(right, on=key, how="left"): for each left row in order, one
\* output row per right row with an equal key, in the right frame's order;
\* a left row without a match is kept with the right columns missing.
merge_left(left, right, key, rcols) ==
    LET missing == [c \in rcols |-> "NaN"]
        matches(l) == SelectSeq(right, LAMBDA r : r[key] = l[key])
        one(l) == LET m == matches(l) IN
                  IF m = <<>>
                  THEN << missing @@ l >>
                  ELSE MapRows(m, LAMBDA r : Project(r, rcols) @@ l)
        F[i \in 0..Len(left)] ==
            IF i = 0 THEN <<>> ELSE F[i - 1] \o one(left[i])
    IN F[Len(left)]

\* DataFrame.rename(columns=m), on one row; m is a function old -> new
rename(row, m) ==
    LET new(c) == IF c \in DOMAIN m THEN m[c] ELSE c
        old(n) == CHOOSE c \in DOMAIN row : new(c) = n
    IN [n \in {new(c) : c \in DOMAIN row} |-> row[old(n)]]

(***************************************************************************)
(* build_lines, statement by statement.  Each operator below is one        *)
(* statement (or one group of statements) of the function, on whole frames.*)
(***************************************************************************)
\* emg["case_id"] = ...; emg["related_hospital"] = ...; emg["hospital_name"] = ...
CleanEmg(e) ==
    MapRows(e, LAMBDA r :
        With(With(With(r, "case_id", CleanId(r.case_id)),
                  "related_hospital", CleanName(r.related_hospital)),
             "hospital_name", CleanName(r.hospital_name)))

\* scene["case_id"] = scene["case_id"].astype(str).str.strip()
CleanScene(s) == MapRows(s, LAMBDA r : With(r, "case_id", CleanId(r.case_id)))

\* the address names left as uploaded
CleanAddr_skipped(a) == a

\* addr["hospital_name"] = addr["hospital_name"].astype(str).apply(clean_str)
CleanAddr(a) == MapRows(a, LAMBDA r : With(r, "hospital_name", CleanName(r.hospital_name)))

\* emg["inquiry_end_time"] = pd.to_datetime(...); emg["call_time"] = pd.to_datetime(...)
ParseTimes(e) ==
    MapRows(e, LAMBDA r :
        With(With(r, "inquiry_end_time", to_datetime(r.inquiry_end_time)),
             "call_time", to_datetime(r.call_time)))

\* emg["call_hour"] = emg["call_time"].dt.hour; emg["time_band"] = pd.cut(...)
AddTimeBand(e) ==
    MapRows(e, LAMBDA r :
        LET r1 == With(r, "call_hour", dt_hour(r.call_time))
        IN  With(r1, "time_band", cut(r1.call_hour)))

\* emg["main_condition"] = emg.apply(detect_condition, axis=1)
AddCondition(e) == MapRows(e, LAMBDA r : With(r, "main_condition", detect_condition(r)))

\* scene2 = scene.rename(...)[[...]].dropna(subset=[...]).drop_duplicates("case_id")
scene2(s) ==
    LET renamed == MapRows(s, LAMBDA r :
                       rename(r, [fX |-> "scene_lon", fY |-> "scene_lat"]))
        cut3 == MapRows(renamed, LAMBDA r :
                       Project(r, {"case_id", "scene_lat", "scene_lon"}))
    IN drop_duplicates(dropna(cut3, "scene_lat", "scene_lon"), "case_id")

\* addr2 = addr.rename(...)[["hospital_name", "hosp_lat", "hosp_lon"]]
addr2(a) ==
    MapRows(a, LAMBDA r :
        Project(rename(r, [fX |-> "hosp_lon", fY |-> "hosp_lat"]),
                {"hospital_name", "hosp_lat", "hosp_lon"}))

\* emg_q = emg[emg["related_hospital"].str.len() > 0].copy()
emg_q(e) == SelectSeq(e, LAMBDA r : Len(r.related_hospital) > 0)

\* rel_addr = addr2.rename(columns={...})
rel_addr(a2) ==
    MapRows(a2, LAMBDA r :
        rename(r, [hospital_name |-> "related_hospital",
                   hosp_lat |-> "rel_lat", hosp_lon |-> "rel_lon"]))

\* final_addr = addr2.rename(columns={...})
final_addr(a2) ==
    MapRows(a2, LAMBDA r :
        rename(r, [hospital_name |-> "hospital_name",
                   hosp_lat |-> "final_lat", hosp_lon |-> "final_lon"]))

\* lines["is_available"] = lines["obstruction_info"].apply(classify_available)
AddAvailable(t) ==
    MapRows(t, LAMBDA r : With(r, "is_available", classify_available(r.obstruction_info)))

\* the final column list of build_lines (and the row identity src)
LineCols ==
    {"case_id", "related_hospital", "obstruction_info", "inquiry_end_time",
     "scene_lat", "scene_lon", "rel_lat", "rel_lon", "hospital_name",
     "final_lat", "final_lon", "is_available", "time_band", "main_condition",
     "src"}

\* build_lines(emg, addr, scene): the three frames as the call leaves them,
\* and the frame it returns.
build_lines(e, a, s) ==
    LET e1   == AddCondition(AddTimeBand(ParseTimes(CleanEmg(e))))
        s1   == CleanScene(s)
        a1   == CleanAddr(a)
        sc2  == scene2(s1)
        ad2  == addr2(a1)
        q    == emg_q(e1)
        emg_rel  == merge_left(q, rel_addr(ad2), "related_hospital",
                               {"rel_lat", "rel_lon"})
        emg_both == merge_left(emg_rel, final_addr(ad2), "hospital_name",
                               {"final_lat", "final_lon"})
        joined   == merge_left(emg_both, sc2, "case_id",
                               {"scene_lat", "scene_lon"})
        out      == MapRows(AddAvailable(joined), LAMBDA r : Project(r, LineCols))
    IN [emg |-> e1, addr |-> a1, scene |-> s1, lines |-> out]

(***************************************************************************)
(* Inputs                                                                  *)
(***************************************************************************)
MaxEmg == 2       \* most rows of the call table
MaxAddr == 2      \* most rows of the address table
MaxScene == 2     \* most rows of the scene table

Text(d, h) == [k |-> "text", d |-> d, h |-> h]
NullTime == [k |-> "null", d |-> 0, h |-> 0]
BadTime == [k |-> "bad", d |-> 0, h |-> 0]

\* a call row with every required column; the four indicator columns present
EmgRow(cid, rel, fin, ct, iet, ob, heat, flu, snow, covid) ==
    [case_id |-> cid, related_hospital |-> rel, hospital_name |-> fin,
     call_time |-> ct, inquiry_end_time |-> iet, obstruction_info |-> ob,
     incident_condition_heatstroke |-> heat, incident_condition_flu |-> flu,
     incident_condition_snow |-> snow, incident_condition_covid19_suspect |-> covid]

\* the tables of at most n rows drawn from a set of rows
Tables(rows, n) == UNION {[1..k -> rows] : k \in 0..n}

\* the uploaded call table numbers its rows: src is the row's position
Numbered(t) == [i \in 1..Len(t) |-> With(t[i], "src", i)]

\* Call rows of the general run: a name that needs cleaning, a missing and a
\* whitespace-only inquired hospital, two calls of one case.
EmgRows ==
    { EmgRow(<<"A">>, <<FW, "H", SP>>, <<"G">>, Text(1, 6), Text(1, 7), SHUYOKA,
             <<"1">>, Null, Null, Null),
      EmgRow(<<SP, "A">>, Null, <<"H">>, BadTime, NullTime, Null,
             Null, <<"0">>, Null, <<"1">>),
      EmgRow(<<"B">>, <<FW, SP>>, <<"G">>, NullTime, Text(2, 0), <<"man", "shou">>,
             Null, Null, Null, Null) }

\* Address rows of the general run (a table may hold one row twice).
AddrRows ==
    { [hospital_name |-> <<"H">>, fY |-> "35.1", fX |-> "139.1"],
      [hospital_name |-> <<"G", FW>>, fY |-> "35.2", fX |-> "139.2"] }

\* Scene rows of the general run: one case id twice after cleaning.
SceneRows ==
    { [case_id |-> <<"A">>, fY |-> "35.0", fX |-> "139.0"],
      [case_id |-> <<"A", SP>>, fY |-> "36.0", fX |-> "140.0"] }

\* Call rows for the hospital joins: every pairing of an inquired hospital
\* (plain, needing cleaning, missing, whitespace-only) with a final one.
HospEmgRows ==
    { EmgRow(<<"A">>, <<"H">>, <<"G">>, Text(1, 6), Text(1, 7), SHUYOKA,
             Null, Null, Null, Null),
      EmgRow(<<"A">>, <<FW, "H", SP>>, <<"H">>, Text(1, 6), Text(1, 7), SHUYOKA,
             Null, Null, Null, Null),
      EmgRow(<<"B">>, Null, <<"H", FW>>, Text(1, 6), Text(1, 7), SHUYOKA,
             Null, Null, Null, Null),
      EmgRow(<<"B">>, <<"K">>, <<"K">>, Text(1, 6), Text(1, 7), SHUYOKA,
             Null, Null, Null, Null) }

\* Address rows for the hospital joins: one name twice after cleaning, one
\* row without coordinates.
HospAddrRows ==
    { [hospital_name |-> <<"H">>, fY |-> "35.1", fX |-> "139.1"],
      [hospital_name |-> <<"H", FW>>, fY |-> "35.2", fX |-> "139.2"],
      [hospital_name |-> <<"G">>, fY |-> "NaN", fX |-> "NaN"] }

\* Call rows for the scene join: case ids that need cleaning, two calls of a case.
SceneEmgRows ==
    { EmgRow(<<"A">>, <<"H">>, <<"H">>, Text(1, 6), Text(1, 7), SHUYOKA,
             Null, Null, Null, Null),
      EmgRow(<<SP, "A">>, <<"G">>, <<"H">>, Text(1, 6), Text(1, 7), SHUYOKA,
             Null, Null, Null, Null),
      EmgRow(<<"B">>, <<"H">>, <<"H">>, Text(1, 6), Text(1, 7), SHUYOKA,
             Null, Null, Null, Null) }

\* Scene rows for the scene join: one case id three ways, rows that lack a
\* coordinate.
SceneJoinRows ==
    { [case_id |-> <<"A">>, fY |-> "35.0", fX |-> "139.0"],
      [case_id |-> <<"A", SP>>, fY |-> "36.0", fX |-> "140.0"],
      [case_id |-> <<"A">>, fY |-> "NaN", fX |-> "139.0"],
      [case_id |-> <<FW, "A">>, fY |-> "37.0", fX |-> "NaN"] }

OneAddr == << [hospital_name |-> <<"H">>, fY |-> "35.1", fX |-> "139.1"] >>
OneScene == << [case_id |-> <<"A">>, fY |-> "35.0", fX |-> "139.0"] >>

\* the script has not started
DashIdle ==
    /\ pc = "idle"
    /\ date_range = <<>>
    /\ day_base = <<>>
    /\ day = <<>>
    /\ hosp_val = <<"<all>">>
    /\ time_val = "all"
    /\ cond_val = "all"
    /\ map_type = "none"
    /\ builder = "none"
    /\ shown = <<>>
    /\ msg = "none"

Loaded(e, a, s) ==
    /\ emg0 = e /\ addr0 = a /\ scene0 = s
    /\ emg = e /\ addr = a /\ scene = s
    /\ lines = <<>>
    /\ calls = 0

\* the general run: all three tables vary
Init ==
    /\ \E e \in Tables(EmgRows, MaxEmg), a \in Tables(AddrRows, MaxAddr),
          s \in Tables(SceneRows, MaxScene) : Loaded(Numbered(e), a, s)
    /\ DashIdle

\* the hospital joins: the call and the address table vary
InitHosp ==
    /\ \E e \in Tables(HospEmgRows, MaxEmg), a \in Tables(HospAddrRows, MaxAddr) :
          Loaded(Numbered(e), a, OneScene)
    /\ DashIdle

\* the scene join: the call and the scene table vary
InitScene ==
    /\ \E e \in Tables(SceneEmgRows, MaxEmg), s \in Tables(SceneJoinRows, MaxScene) :
          Loaded(Numbered(e), OneAddr, s)
    /\ DashIdle

\* Call times: every hour of the day, a text that does not parse, a missing cell.
BandTimes == {Text(1, h) : h \in 0..23} \cup {BadTime, NullTime}

\* time bands: two call rows, each with any call time
InitBand ==
    /\ \E t1, t2 \in BandTimes :
          Loaded(Numbered(<< EmgRow(<<"A">>, <<"H">>, <<"H">>, t1, Text(1, 7), SHUYOKA,
                                    Null, Null, Null, Null),
                             EmgRow(<<"B">>, <<"H">>, <<"H">>, t2, Text(1, 7), SHUYOKA,
                                    Null, Null, Null, Null) >>),
                 OneAddr, OneScene)
    /\ DashIdle

\* Indicator cells: missing, empty, not applicable, zero, and two other
\* values; Absent marks a column the uploaded table does not have.
Absent == <<"<absent>">>
IndicatorCols == {"incident_condition_heatstroke", "incident_condition_flu",
                  "incident_condition_snow", "incident_condition_covid19_suspect"}
IndicatorCells == {Null, <<>>, HIGAITOU, <<"0">>, <<"1">>, <<"0", ".", "0">>}

\* a call row without the four indicator columns
BaseRow ==
    [case_id |-> <<"A">>, related_hospital |-> <<"H">>, hospital_name |-> <<"H">>,
     call_time |-> Text(1, 6), inquiry_end_time |-> Text(1, 7),
     obstruction_info |-> SHUYOKA]

\* condition labels: one call row, each indicator column absent or holding any cell
InitCond ==
    /\ \E f \in [IndicatorCols -> IndicatorCells \cup {Absent}] :
          LET present == {c \in IndicatorCols : f[c] # Absent}
          IN  Loaded(Numbered(<< [c \in present |-> f[c]] @@ BaseRow >>),
                     OneAddr, OneScene)
    /\ DashIdle

\* Obstruction texts: the literal, the literal inside blanks, texts that
\* hold the literal or a rejection phrase, other texts, a missing cell.
ObstructionCells ==
    { Null, SHUYOKA, <<SP>> \o SHUYOKA \o <<SP>>, <<FW>> \o SHUYOKA,
      SHUYOKA \o <<"nou">>, <<"shuu", SP, "you", "ka">>, <<>>, <<SP>>,
      <<"man", "shou">>, <<"x">> \o <<"sho", "chi", "kon", "nan">> \o <<"y">>,
      <<"ou", "tou", "na", "shi">>, <<"kan", "ja", "tai", "ou", "chuu">>,
      NanText, <<"x">> }

\* acceptance: two call rows, each with any obstruction text
InitAvail ==
    /\ \E o1, o2 \in ObstructionCells :
          Loaded(Numbered(<< EmgRow(<<"A">>, <<"H">>, <<"H">>, Text(1, 6), Text(1, 7), o1,
                                    Null, Null, Null, Null),
                             EmgRow(<<"B">>, <<"H">>, <<"H">>, Text(1, 6), Text(1, 7), o2,
                                    Null, Null, Null, Null) >>),
                 OneAddr, OneScene)
    /\ DashIdle

\* Call rows of the dashboard run: inquiry-end days 1 and 6 or none, two
\* hospitals (G has no address row), a call hour or none, a condition or none.
DashRow(dd, hosp, ct, heat) ==
    EmgRow(<<"A">>, hosp, hosp, ct,
           IF dd = NoDate THEN BadTime ELSE Text(dd, 9),
           <<"man", "shou">>, heat, Null, Null, Null)

DashFirstRows ==
    { DashRow(1, <<"H">>, Text(1, 7), <<"1">>),
      DashRow(6, <<"G">>, NullTime, Null) }

DashSecondRows ==
    { DashRow(d, h, c[1], c[2]) :
        d \in {NoDate, 1, 6}, h \in {<<"H">>, <<"G">>},
        c \in { <<NullTime, <<"1">> >>, <<Text(1, 7), <<"1">> >>, <<Text(1, 7), Null>> } }

\* the days the date widget is tried with: the days of the records and a day without any
DayVals == {1, 2, 6}

\* the dashboard run: the three files are uploaded, the script is at its top
InitDash ==
    /\ \E r1 \in DashFirstRows, r2 \in DashSecondRows :
          Loaded(Numbered(<<r1, r2>>), OneAddr, OneScene)
    /\ pc = "start"
    /\ date_range = <<>>
    /\ day_base = <<>>
    /\ day = <<>>
    /\ hosp_val = <<"<all>">>
    /\ time_val = "all"
    /\ cond_val = "all"
    /\ map_type = "none"
    /\ builder = "none"
    /\ shown = <<>>
    /\ msg = "none"

(***************************************************************************)
(* Actions                                                                 *)
(***************************************************************************)
\* A call build_lines(emg, addr, scene) on the frames as they now are.
BuildLines ==
    /\ pc = "idle"
    /\ LET r == build_lines(emg, addr, scene) IN
        /\ emg' = r.emg
        /\ addr' = r.addr
        /\ scene' = r.scene
        /\ lines' = r.lines
    /\ calls' = IF calls < 2 THEN calls + 1 ELSE calls
    /\ UNCHANGED <<emg0, addr0, scene0>>
    /\ UNCHANGED dashVars

(***************************************************************************)
(* The dashboard script, from the upload to the map.  A widget returns     *)
(* any of its values; st.stop() ends the run.                              *)
(***************************************************************************)
AllHosp == <<"<all>">>         \* the "all" entry of the hospital selectbox (None)
TIME_BANDS == {"0-6", "6-12", "12-18", "18-24"}
MAP_TYPES == {"connection", "timeline", "heatmap"}
TimelineMaxDays == 3

Rows(t) == {t[i] : i \in 1..Len(t)}

\* lines = build_lines_cached(emg, addr, scene); lines["date"] = ... .dt.date
\* then the test of date_series.empty
Preprocess ==
    /\ pc = "start"
    /\ LET r == build_lines(emg, addr, scene)
           dated == MapRows(r.lines, LAMBDA q :
                        With(q, "date", dt_date(to_datetime(q.inquiry_end_time))))
       IN  /\ emg' = r.emg
           /\ addr' = r.addr
           /\ scene' = r.scene
           /\ lines' = dated
           /\ IF \A q \in Rows(dated) : q.date = NoDate
              THEN pc' = "stopped" /\ msg' = "error: no dates"
              ELSE pc' = "date_input" /\ msg' = msg
    /\ calls' = IF calls < 2 THEN calls + 1 ELSE calls
    /\ UNCHANGED <<emg0, addr0, scene0>>
    /\ UNCHANGED <<date_range, day_base, day, hosp_val, time_val, cond_val,
                   map_type, builder, shown>>

Dates == {q.date : q \in Rows(lines)} \ {NoDate}
min_date == Min(Dates)
max_date == Max(Dates)

\* the values st.date_input can return: a (start, end) pair, a single date,
\* or the one-element tuple of a selection in progress
DateInputs ==
    LET pick == {d \in DayVals : min_date <= d /\ d <= max_date} IN
    {<<"pair", a, b>> : a, b \in pick}
        \cup {<<"single", d, d>> : d \in pick}
        \cup {<<"partial", d, d>> : d \in pick}

\* start_date, end_date as the script computes them
start_end(dr) ==
    LET se == IF dr[1] = "pair" THEN <<dr[2], dr[3]>> ELSE <<min_date, dr[2]>>
    IN  IF se[1] > se[2] THEN <<se[2], se[1]>> ELSE se

\* mask = (lines["date"] >= start_date) & (lines["date"] <= end_date)
date_mask(t, se) ==
    SelectSeq(t, LAMBDA q : q.date # NoDate /\ q.date >= se[1] /\ q.date <= se[2])

\* The date widget is read and the date filter applied.
DateFilter ==
    /\ pc = "date_input"
    /\ \E dr \in DateInputs :
          /\ date_range' = dr
          /\ IF dr[1] = "partial"
             THEN /\ pc' = "raised"          \* start_date, end_date = date_range fails
                  /\ UNCHANGED <<day_base, msg>>
             ELSE LET base == date_mask(lines, start_end(dr)) IN
                  /\ day_base' = base
                  /\ IF base = <<>>
                     THEN pc' = "stopped" /\ msg' = "warning: no data in period"
                     ELSE pc' = "filters" /\ msg' = msg
    /\ UNCHANGED pipeVars
    /\ UNCHANGED <<day, hosp_val, time_val, cond_val, map_type, builder, shown>>

\* if hosp_val: ... ; a None and an empty selection are both false
Truthy(v) == v # AllHosp /\ v # <<>>

\* the band filter keeping the records without a band
apply_filters_keep_missing_band(base, hosp, time, cond) ==
    LET d1 == IF Truthy(hosp)
              THEN SelectSeq(base, LAMBDA q : q.related_hospital = hosp) ELSE base
        d2 == IF time # "all"
              THEN SelectSeq(d1, LAMBDA q : q.time_band = time \/ q.time_band = "NaN")
              ELSE d1
        d3 == IF cond # "all"
              THEN SelectSeq(d2, LAMBDA q : q.main_condition = cond) ELSE d2
    IN d3

\* the three conditional filters on a copy of day_base
apply_filters(base, hosp, time, cond) ==
    LET d1 == IF Truthy(hosp)
              THEN SelectSeq(base, LAMBDA q : q.related_hospital = hosp) ELSE base
        d2 == IF time # "all"
              THEN SelectSeq(d1, LAMBDA q : q.time_band = time) ELSE d1
        d3 == IF cond # "all"
              THEN SelectSeq(d2, LAMBDA q : q.main_condition = cond) ELSE d2
    IN d3

\* The hospital, time band, condition and map widgets are read and the
\* filters applied.
ApplyFilters ==
    /\ pc = "filters"
    /\ \E hosp \in {AllHosp} \cup {q.related_hospital : q \in Rows(day_base)},
          time \in {"all"} \cup TIME_BANDS,
          cond \in {"all"} \cup {q.main_condition : q \in Rows(day_base)},
          mt \in MAP_TYPES :
          /\ hosp_val' = hosp
          /\ time_val' = time
          /\ cond_val' = cond
          /\ map_type' = mt
          /\ day' = apply_filters(day_base, hosp, time, cond)
          /\ IF day' = <<>>
             THEN pc' = "stopped" /\ msg' = "warning: no data for filters"
             ELSE pc' = "map" /\ msg' = msg
    /\ UNCHANGED pipeVars
    /\ UNCHANGED <<date_range, day_base, builder, shown>>

\* m = make_connection_map(day)
ConnectionMap ==
    /\ pc = "map" /\ map_type = "connection"
    /\ builder' = "make_connection_map"
    /\ shown' = day
    /\ pc' = "done"
    /\ UNCHANGED pipeVars
    /\ UNCHANGED <<date_range, day_base, day, hosp_val, time_val, cond_val, map_type, msg>>

\* the row of df made from a row of day
timeline_row(q) ==
    [related_hospital |-> q.related_hospital, obstruction_info |-> q.obstruction_info,
     inquiry_end_time |-> q.inquiry_end_time, lat |-> q.rel_lat, lon |-> q.rel_lon,
     is_available |-> q.is_available]

\* df = day.dropna(subset=["rel_lat", "rel_lon"]).rename(...)[[...]]
timeline_df(d) ==
    MapRows(SelectSeq(d, LAMBDA q : q.rel_lat # "NaN" /\ q.rel_lon # "NaN"), timeline_row)

\* the timeline branch: the three-day limit, the empty df, make_hospital_timeline_map(df)
TimelineMap ==
    /\ pc = "map" /\ map_type = "timeline"
    /\ LET se == start_end(date_range)
           df == timeline_df(day)
       IN  IF se[2] - se[1] > TimelineMaxDays
           THEN /\ pc' = "stopped" /\ msg' = "warning: timeline over three days"
                /\ UNCHANGED <<builder, shown>>
           ELSE IF df = <<>>
           THEN /\ pc' = "done" /\ msg' = "warning: no timeline data"
                /\ UNCHANGED <<builder, shown>>
           ELSE /\ builder' = "make_hospital_timeline_map"
                /\ shown' = df
                /\ pc' = "done" /\ msg' = msg
    /\ UNCHANGED pipeVars
    /\ UNCHANGED <<date_range, day_base, day, hosp_val, time_val, cond_val, map_type>>

\* m = make_demand_difficulty_heatmap(day)
HeatMap ==
    /\ pc = "map" /\ map_type = "heatmap"
    /\ builder' = "make_demand_difficulty_heatmap"
    /\ shown' = day
    /\ pc' = "done"
    /\ UNCHANGED pipeVars
    /\ UNCHANGED <<date_range, day_base, day, hosp_val, time_val, cond_val, map_type, msg>>

\* A widget is touched: the script runs again from the top, on the files
\* read anew.
Rerun ==
    /\ pc \in {"stopped", "raised", "done"}
    /\ emg' = emg0 /\ addr' = addr0 /\ scene' = scene0
    /\ lines' = <<>>
    /\ calls' = 0
    /\ pc' = "start"
    /\ date_range' = <<>>
    /\ day_base' = <<>>
    /\ day' = <<>>
    /\ hosp_val' = AllHosp
    /\ time_val' = "all"
    /\ cond_val' = "all"
    /\ map_type' = "none"
    /\ builder' = "none"
    /\ shown' = <<>>
    /\ msg' = "none"
    /\ UNCHANGED <<emg0, addr0, scene0>>

NextDash ==
    \/ Preprocess
    \/ DateFilter
    \/ ApplyFilters
    \/ ConnectionMap
    \/ TimelineMap
    \/ HeatMap
    \/ Rerun

Next == BuildLines

Spec == Init /\ [][Next]_vars
SpecHosp == InitHosp /\ [][Next]_vars
SpecScene == InitScene /\ [][Next]_vars
SpecBand == InitBand /\ [][Next]_vars
SpecCond == InitCond /\ [][Next]_vars
SpecAvail == InitAvail /\ [][Next]_vars
SpecDash == InitDash /\ [][NextDash]_vars

(***************************************************************************)
(* Vocabulary of the properties                                            *)
(***************************************************************************)
called == calls >= 1

\* the positions of the uploaded call rows whose cleaned inquired hospital is not empty
Kept == {i \in 1..Len(emg0) : clean_str(Str(emg0[i].related_hospital)) # <<>>}

\* the output rows that come from the uploaded call row i
RowsOf(i) == {j \in 1..Len(lines) : lines[j].src = i}

\* the address rows whose cleaned name is n
AddrMatches(n) == {k \in 1..Len(addr0) : clean_str(Str(addr0[k].hospital_name)) = n}

\* the scene rows whose cleaned case id is c
SceneMatches(c) == {k \in 1..Len(scene0) : Strip(Str(scene0[k].case_id)) = c}

Complete(row) == row.fY # "NaN" /\ row.fX # "NaN"

OneIfNone(n) == IF n = 0 THEN 1 ELSE n

NoDuplicateNames ==
    \A k, l \in 1..Len(addr0) :
        clean_str(Str(addr0[k].hospital_name)) = clean_str(Str(addr0[l].hospital_name))
            => k = l

(***************************************************************************)
(* C1. Row count of build_lines: with no hospital name twice in the        *)
(* address table (after cleaning) the output has exactly one row per call  *)
(* record whose cleaned related_hospital is not empty; in every case each  *)
(* such record is in the output, a record yields exactly the rows the two  *)
(* hospital joins fan it out to, and the scene join adds none.             *)
(***************************************************************************)
C1_RowCount ==
    called =>
        /\ NoDuplicateNames => Len(lines) = Cardinality(Kept)
        /\ \A i \in Kept : RowsOf(i) # {}
        /\ \A i \in Kept :
              Cardinality(RowsOf(i)) =
                  OneIfNone(Cardinality(AddrMatches(clean_str(Str(emg0[i].related_hospital)))))
                * OneIfNone(Cardinality(AddrMatches(clean_str(Str(emg0[i].hospital_name)))))

\* a call with a dropped and a kept record, a hospital name that fans out, and
\* a kept record whose case id has two scene rows
C1_Witness ==
    /\ called
    /\ Kept # {} /\ Kept # 1..Len(emg0)
    /\ Len(lines) > Cardinality(Kept)
    /\ \E i \in Kept : Cardinality(SceneMatches(Strip(Str(emg0[i].case_id)))) = 2

(***************************************************************************)
(* C2. A call record whose related_hospital is missing, or empty after     *)
(* cleaning, is not in the output, and no output record has an empty       *)
(* related_hospital.                                                       *)
(***************************************************************************)
C2_NoInquiryDropped ==
    called =>
        /\ \A i \in 1..Len(emg0) :
              (isna(emg0[i].related_hospital)
                 \/ clean_str(Str(emg0[i].related_hospital)) = <<>>)
                  => RowsOf(i) = {}
        /\ \A j \in 1..Len(lines) : lines[j].related_hospital # <<>>

(***************************************************************************)
(* C3. Hospital coordinates.  The claim as stated: the coordinates of an   *)
(* output record are those of an address row with the record's cleaned     *)
(* name, and are missing exactly when there is no such row.                *)
(***************************************************************************)
Lookup(name, lat, lon) ==
    /\ AddrMatches(name) = {} => lat = "NaN" /\ lon = "NaN"
    /\ AddrMatches(name) # {} =>
          \E k \in AddrMatches(name) : lat = addr0[k].fY /\ lon = addr0[k].fX

MissingExactlyWhenNoRow(name, lat, lon) ==
    (lat = "NaN" /\ lon = "NaN") <=> AddrMatches(name) = {}

\* C3 as stated: both lookups, each missing exactly when no address row has the name
C3_AsStated ==
    called =>
        \A j \in 1..Len(lines) :
            /\ Lookup(lines[j].related_hospital, lines[j].rel_lat, lines[j].rel_lon)
            /\ Lookup(lines[j].hospital_name, lines[j].final_lat, lines[j].final_lon)
            /\ MissingExactlyWhenNoRow(lines[j].related_hospital,
                                       lines[j].rel_lat, lines[j].rel_lon)
            /\ MissingExactlyWhenNoRow(lines[j].hospital_name,
                                       lines[j].final_lat, lines[j].final_lon)

\* C3 as amended: each lookup depends on its own name alone; it gives the
\* coordinates of an address row with that cleaned name (missing when that
\* row's own coordinates are missing) and missing coordinates when no such
\* row exists; an unresolved lookup removes no record.
C3_Lookup ==
    called =>
        /\ \A j \in 1..Len(lines) :
              /\ lines[j].related_hospital = clean_str(Str(emg0[lines[j].src].related_hospital))
              /\ lines[j].hospital_name = clean_str(Str(emg0[lines[j].src].hospital_name))
              /\ Lookup(lines[j].related_hospital, lines[j].rel_lat, lines[j].rel_lon)
              /\ Lookup(lines[j].hospital_name, lines[j].final_lat, lines[j].final_lon)
        /\ \A i \in Kept : RowsOf(i) # {}

\* one record with the inquired hospital resolved and the final one not, and
\* one record the other way round
C3_Witness ==
    /\ called
    /\ \E j \in 1..Len(lines) :
          /\ lines[j].rel_lat # "NaN"
          /\ AddrMatches(lines[j].hospital_name) = {}
    /\ \E j \in 1..Len(lines) :
          /\ AddrMatches(lines[j].related_hospital) = {}
          /\ lines[j].final_lat # "NaN"

(***************************************************************************)
(* C7. A second call of build_lines, on the frames as the first call left  *)
(* them, returns the table the first call returned.                        *)
(***************************************************************************)
C7_Idempotent == [][called => lines' = lines]_vars

\* two calls have returned, the first of which changed its input frames
C7_Witness == calls = 2 /\ emg # emg0 /\ addr # addr0 /\ lines # <<>>

(***************************************************************************)
(* C8. build_lines leaves its three input frames as they were.             *)
(***************************************************************************)
C8_InputsUnchanged == called => emg = emg0 /\ addr = addr0 /\ scene = scene0

(***************************************************************************)
(* C9. Scene coordinates.  The claim as stated: the coordinates of a       *)
(* record are those of the first scene row with its case id; if that row   *)
(* lacks a coordinate, or there is no such row, they are missing.          *)
(***************************************************************************)
SameCaseSameScene ==
    \A j, l \in 1..Len(lines) :
        lines[j].case_id = lines[l].case_id
            => /\ lines[j].scene_lat = lines[l].scene_lat
               /\ lines[j].scene_lon = lines[l].scene_lon

SceneFrom(j, S) ==
    IF S = {}
    THEN lines[j].scene_lat = "NaN" /\ lines[j].scene_lon = "NaN"
    ELSE /\ lines[j].scene_lat = scene0[Min(S)].fY
         /\ lines[j].scene_lon = scene0[Min(S)].fX

\* C9 as stated: the first scene row of the case decides, complete or not
C9_AsStated ==
    called =>
        /\ SameCaseSameScene
        /\ \A j \in 1..Len(lines) :
              LET S == SceneMatches(lines[j].case_id) IN
              IF S # {} /\ ~Complete(scene0[Min(S)])
              THEN lines[j].scene_lat = "NaN" /\ lines[j].scene_lon = "NaN"
              ELSE SceneFrom(j, S)

\* C9 as amended: the first scene row with the record's case id among the
\* rows that have both coordinates.
C9_FirstComplete ==
    called =>
        /\ SameCaseSameScene
        /\ \A j \in 1..Len(lines) :
              /\ lines[j].case_id = Strip(Str(emg0[lines[j].src].case_id))
              /\ SceneFrom(j, {k \in SceneMatches(lines[j].case_id) : Complete(scene0[k])})
        /\ \A i \in Kept : RowsOf(i) # {}

\* two call records of one case whose first scene row lacks its latitude and
\* whose second scene row is complete
C9_Witness ==
    /\ called
    /\ \E j, l \in 1..Len(lines) :
          /\ lines[j].src # lines[l].src /\ lines[j].case_id = lines[l].case_id
          /\ \E k, m \in SceneMatches(lines[j].case_id) :
                k < m /\ ~Complete(scene0[k]) /\ Complete(scene0[m])

(***************************************************************************)
(* C4. classify_available is a total tri-state classifier: a missing       *)
(* obstruction_info gives None, a text that is the literal once trimmed    *)
(* gives True, every other text gives False.                               *)
(***************************************************************************)
\* the obstruction texts whose trimmed value is the literal
TrimsToLiteral == { SHUYOKA, <<SP>> \o SHUYOKA \o <<SP>>, <<FW>> \o SHUYOKA }

\* C4: None exactly for a missing cell, True exactly for a text that trims to
\* the literal, False for every other text
C4_TriState ==
    called =>
        \A j \in 1..Len(lines) :
            LET info == emg0[lines[j].src].obstruction_info IN
            /\ lines[j].is_available \in {"None", "True", "False"}
            /\ lines[j].is_available = "None" <=> info = Null
            /\ lines[j].is_available = "True" <=> info \in TrimsToLiteral

\* one record with a text that is neither the literal nor a known rejection
\* phrase, one with the literal inside blanks, both classified
C4_Witness ==
    /\ called
    /\ \E j \in 1..Len(lines) :
          emg0[lines[j].src].obstruction_info = <<"x">> /\ lines[j].is_available = "False"
    /\ \E j \in 1..Len(lines) :
          /\ emg0[lines[j].src].obstruction_info = <<SP>> \o SHUYOKA \o <<SP>>
          /\ lines[j].is_available = "True"

(***************************************************************************)
(* C5. detect_condition is a priority encoder: the label is that of the    *)
(* first indicator, in the order heatstroke, flu, snow, suspected          *)
(* infection, that is on, and the other/none label when none is on.        *)
(***************************************************************************)
CondOrder == << "incident_condition_heatstroke", "incident_condition_flu",
                "incident_condition_snow", "incident_condition_covid19_suspect" >>
CondLabel == << "necchusho", "infuru", "yuki", "korona-utagai" >>

\* the cells that count as on: present, not missing, not empty, not the
\* not-applicable token, not the zero token
OnCells == { <<"1">>, <<"0", ".", "0">> }

OnAt(row, k) == CondOrder[k] \in DOMAIN row /\ row[CondOrder[k]] \in OnCells

\* C5: the label of the first indicator that is on, other/none when none is
C5_Priority ==
    called =>
        \A j \in 1..Len(lines) :
            LET row == emg0[lines[j].src]
                on == {k \in 1..4 : OnAt(row, k)}
            IN  /\ on = {} <=> lines[j].main_condition = "sonota/nashi"
                /\ on # {} => lines[j].main_condition = CondLabel[Min(on)]

\* heatstroke off in a way other than missing, flu and snow both on: flu wins
C5_Witness ==
    /\ called
    /\ \E j \in 1..Len(lines) :
          LET row == emg0[lines[j].src] IN
          /\ "incident_condition_heatstroke" \in DOMAIN row
          /\ row.incident_condition_heatstroke = HIGAITOU
          /\ OnAt(row, 2) /\ OnAt(row, 3)
          /\ ~("incident_condition_covid19_suspect" \in DOMAIN row)
          /\ lines[j].main_condition = "infuru"

(***************************************************************************)
(* C6. Time bands: hours 0..5 give 0-6, 6..11 give 6-12, 12..17 give       *)
(* 12-18, 18..23 give 18-24; a call time that is missing or does not parse *)
(* gives a missing band, and the record stays in the output.               *)
(***************************************************************************)
BandOf(h) ==
    CASE h \in 0..5   -> "0-6"
      [] h \in 6..11  -> "6-12"
      [] h \in 12..17 -> "12-18"
      [] h \in 18..23 -> "18-24"

\* C6: the band of every call hour, a missing band for a call time that is
\* missing or does not parse, and no record lost
C6_Bands ==
    called =>
        /\ \A j \in 1..Len(lines) :
              LET ct == emg0[lines[j].src].call_time IN
              lines[j].time_band = IF ct.k = "text" THEN BandOf(ct.h) ELSE "NaN"
        /\ \A i \in 1..Len(emg0) : RowsOf(i) # {}

\* a call at hour 6 in band 6-12 next to a call whose time does not parse
C6_Witness ==
    /\ called
    /\ \E j \in 1..Len(lines) :
          /\ emg0[lines[j].src].call_time = Text(1, 6)
          /\ lines[j].time_band = "6-12"
    /\ \E j \in 1..Len(lines) :
          /\ emg0[lines[j].src].call_time = BadTime
          /\ lines[j].time_band = "NaN"

(***************************************************************************)
(* C10. Filter flow of the dashboard script: a map builder is called only  *)
(* with a non-empty set of records that all satisfy the active filters     *)
(* (date between start and end inclusive, after the swap; hospital; time   *)
(* band, so a record without a band is excluded when a band is selected;   *)
(* condition); when the date filter or the combined filters leave no       *)
(* record the run ends with a warning and no map builder is called.        *)
(***************************************************************************)
DateRead == date_range # <<>> /\ date_range[1] # "partial"
FiltersRead == map_type # "none"

RangeLo == IF date_range[1] = "pair" THEN Min({date_range[2], date_range[3]}) ELSE min_date
RangeHi == IF date_range[1] = "pair" THEN Max({date_range[2], date_range[3]}) ELSE date_range[2]

InPeriod(q) == q.date # NoDate /\ RangeLo <= q.date /\ q.date <= RangeHi

Qualifies(q) ==
    /\ InPeriod(q)
    /\ hosp_val # AllHosp => q.related_hospital = hosp_val
    /\ time_val # "all" => q.time_band = time_val
    /\ cond_val # "all" => q.main_condition = cond_val

\* C10: a builder gets only qualifying records and at least one; an empty
\* date filter or combined filter ends the run with its warning
C10_FilterFlow ==
    /\ builder # "none" =>
          /\ shown # <<>>
          /\ \A r \in Rows(shown) : \E q \in Rows(lines) :
                /\ Qualifies(q)
                /\ r = IF builder = "make_hospital_timeline_map" THEN timeline_row(q) ELSE q
    /\ (DateRead /\ ~ \E q \in Rows(lines) : InPeriod(q)) =>
          pc = "stopped" /\ msg = "warning: no data in period" /\ builder = "none"
    /\ (FiltersRead /\ ~ \E q \in Rows(lines) : Qualifies(q)) =>
          pc = "stopped" /\ msg = "warning: no data for filters" /\ builder = "none"

\* a map built for a band, with start and end given in the wrong order, while
\* a record of the period and of the selected hospital has no band
C10_Witness ==
    /\ builder = "make_connection_map"
    /\ date_range[1] = "pair" /\ date_range[2] > date_range[3]
    /\ time_val = "6-12" /\ hosp_val = <<"H">>
    /\ \E q \in Rows(lines) :
          InPeriod(q) /\ q.related_hospital = hosp_val /\ q.time_band = "NaN"

====
